---- MODULE Spec2Model ----
(***************************************************************************)
(* Model of examples/programs/workload.py: the prime-search workload that  *)
(* prints __WORK_START__ / __WORK_END__ around a trial-division search.    *)
(*                                                                         *)
(* The state is the position of main (pc), the command line (argv), the    *)
(* parsed limit, the locals of find_primes, and the process's standard     *)
(* output split into the part still held in the interpreter's buffer (buf) *)
(* and the part an external reader can already see (out).                  *)
(***************************************************************************)
EXTENDS Integers, Sequences, FiniteSets

VARIABLES pc, argv, lineBuffered, limit, rangeNext, num, is_prime, primes,
          main_primes, buf, out, err, exitCode

vars == <<pc, argv, lineBuffered, limit, rangeNext, num, is_prime, primes,
          main_primes, buf, out, err, exitCode>>

(***************************************************************************)
(* Bounds of the explored command lines.                                   *)
(***************************************************************************)
\* largest value given explicitly to -n / --limit
MaxLimit == 30
\* explicit limits go down to -NegLimits
NegLimits == 3

(***************************************************************************)
(* Program constants.                                                      *)
(***************************************************************************)
DefaultLimit == 50000
UsageExitCode == 2
\* exitCode while the process is still running
Running == -1

BANNER == "Starting prime calculation..."
WORK_START == "__WORK_START__"
WORK_END == "__WORK_END__"
USAGE == "usage: workload.py [-h] [-n LIMIT]"

(***************************************************************************)
(* Decimal text of integers.  Command-line tokens are sequences of         *)
(* characters; output lines are strings.                                   *)
(***************************************************************************)
DigitChr == <<"0", "1", "2", "3", "4", "5", "6", "7", "8", "9">>

DigitVal(c) == CHOOSE d \in 0..9 : DigitChr[d + 1] = c

IsDigit(c) == \E d \in 0..9 : DigitChr[d + 1] = c

\* str(n) as used by the f-string: a string of decimal digits, "-" first
\* for a negative number
RECURSIVE DecStr(_)
DecStr(n) ==
    IF n < 10 THEN DigitChr[n + 1]
    ELSE DecStr(n \div 10) \o DigitChr[(n % 10) + 1]

IntToStr(n) == IF n < 0 THEN "-" \o DecStr(0 - n) ELSE DecStr(n)

\* the same text as a command-line token (one character per element)
RECURSIVE DecChars(_)
DecChars(n) ==
    IF n < 10 THEN <<DigitChr[n + 1]>>
    ELSE Append(DecChars(n \div 10), DigitChr[(n % 10) + 1])

IntToken(n) == IF n < 0 THEN <<"-">> \o DecChars(0 - n) ELSE DecChars(n)

(***************************************************************************)
(* type=int: int(token).  An optional sign followed by at least one        *)
(* decimal digit; anything else is a ValueError.                           *)
(***************************************************************************)
RECURSIVE DigitsValue(_)
DigitsValue(ds) ==
    IF Len(ds) = 0 THEN 0
    ELSE 10 * DigitsValue(SubSeq(ds, 1, Len(ds) - 1)) + DigitVal(ds[Len(ds)])

HasSign(tok) == Len(tok) > 0 /\ tok[1] \in {"-", "+"}

Unsigned(tok) == IF HasSign(tok) THEN Tail(tok) ELSE tok

\* variant: the token is not required to hold a digit
IsIntToken_AllowsEmpty(tok) ==
    \A k \in 1..Len(Unsigned(tok)) : IsDigit(Unsigned(tok)[k])

IsIntToken(tok) ==
    /\ Len(Unsigned(tok)) > 0
    /\ \A k \in 1..Len(Unsigned(tok)) : IsDigit(Unsigned(tok)[k])

int(tok) ==
    IF Len(tok) > 0 /\ tok[1] = "-" THEN 0 - DigitsValue(Unsigned(tok))
    ELSE DigitsValue(Unsigned(tok))

(***************************************************************************)
(* parser.parse_args(): the outcome for a command line.  A command line is *)
(* a sequence of arguments, each a sequence of characters except the flag  *)
(* names, which are kept as strings.                                       *)
(***************************************************************************)
LimitFlags == {"-n", "--limit"}
HelpFlags == {"-h", "--help"}

parse_args(args) ==
    IF Len(args) = 0
      THEN [kind |-> "ok", limit |-> DefaultLimit]
    ELSE IF args[1] \in HelpFlags
      THEN [kind |-> "help", limit |-> DefaultLimit]
    ELSE IF args[1] \in LimitFlags /\ Len(args) = 2 /\ IsIntToken(args[2])
      THEN [kind |-> "ok", limit |-> int(args[2])]
    ELSE [kind |-> "error", limit |-> DefaultLimit]

(***************************************************************************)
(* find_primes: the inner loop for one candidate.                          *)
(***************************************************************************)
\* int(num ** 0.5): the integer part of the square root
IntSqrt(n) == CHOOSE r \in 0..n : r * r <= n /\ (r + 1) * (r + 1) > n

\* variant: range(2, int(num ** 0.5)), the square root itself left out
InnerStop_NoPlusOne(n) == IntSqrt(n)

\* upper end (exclusive) of the inner range
InnerStop(n) == IntSqrt(n) + 1

\* variant: no break, and is_prime is set again on every pass, so that the
\* last divisor tried decides
InnerLoop_LastWins(n, start, stop) ==
    IF stop <= start THEN TRUE ELSE n % (stop - 1) # 0

\* is_prime = True; for i in range(start, stop): if n % i == 0: is_prime =
\* False; break.  The value of is_prime when the loop is left: False as soon
\* as one i of the range, taken in ascending order, divides n; True when the
\* range runs out.
InnerLoop(n, start, stop) == \A i \in start..(stop - 1) : n % i # 0

\* variant: trial division starts at 3
TrialDivision_From3(n) == InnerLoop(n, 3, InnerStop(n))

TrialDivision(n) == InnerLoop(n, 2, InnerStop(n))

\* lines 16-22: the body of the outer loop for candidate n, on the list acc
LoopBody(acc, n) == IF TrialDivision(n) THEN Append(acc, n) ELSE acc

(***************************************************************************)
(* find_primes(limit) as a function: the candidates of range(2, limit)     *)
(* taken in order, each appended when its trial division finds no divisor. *)
(***************************************************************************)
\* range(start, stop) as the sequence of the values it yields
range(start, stop) ==
    IF stop <= start THEN <<>>
    ELSE [k \in 1..(stop - start) |-> start + k - 1]

find_primes(lim) == SelectSeq(range(2, lim), TrialDivision)

(***************************************************************************)
(* print(line) and print(line, flush=True) on a buffered stdout.           *)
(* A terminal is line buffered: every complete line leaves at once.  A     *)
(* pipe or file is block buffered: text stays in buf until a flush or the  *)
(* end of the process.                                                     *)
(***************************************************************************)
print(line, flush) ==
    IF flush \/ lineBuffered
      THEN /\ out' = out \o Append(buf, line)
           /\ buf' = <<>>
      ELSE /\ buf' = Append(buf, line)
           /\ out' = out

print_plain(line) == print(line, FALSE)

\* variant: the marker is printed without flush=True
print_flush_NoFlush(line) == print(line, FALSE)

print_flush(line) == print(line, TRUE)

Summary(count, lim) ==
    "Found " \o IntToStr(count) \o " prime numbers up to " \o IntToStr(lim)

(***************************************************************************)
(* Command lines explored.                                                 *)
(***************************************************************************)
BadTokens == { <<"a", "b", "c">>, <<"1", ".", "5">>, <<>>, <<"-">>,
               <<"1", "0", "x">> }

ExplicitLimits == (0 - NegLimits)..MaxLimit

ArgvExplicit ==
    { <<f, IntToken(n)>> : f \in LimitFlags, n \in ExplicitLimits }

ArgvInvalid ==
    { <<f, t>> : f \in LimitFlags, t \in BadTokens }
      \cup { <<f>> : f \in LimitFlags }
      \cup { <<"--bogus">> }

ArgvHelp == { <<f>> : f \in HelpFlags }

ArgvSmall == ArgvExplicit \cup ArgvInvalid \cup ArgvHelp

ArgvAll == ArgvSmall \cup { <<>> }

(***************************************************************************)
(* Initial state: the process has started, main has not run yet.           *)
(***************************************************************************)
InitWith(cmdlines) ==
    /\ argv \in cmdlines
    /\ lineBuffered \in BOOLEAN
    /\ pc = "parse"
    /\ limit = 0
    /\ rangeNext = 0
    /\ num = 0
    /\ is_prime = TRUE
    /\ primes = <<>>
    /\ main_primes = <<>>
    /\ buf = <<>>
    /\ out = <<>>
    /\ err = <<>>
    /\ exitCode = Running

Init == InitWith(ArgvSmall)

InitAll == InitWith(ArgvAll)

locals == <<rangeNext, num, is_prime, primes>>
stdio == <<buf, out, err>>

(***************************************************************************)
(* main, line 31: args = parser.parse_args()                               *)
(***************************************************************************)
ParseArgs ==
    /\ pc = "parse"
    /\ LET r == parse_args(argv) IN
         CASE r.kind = "ok" ->
                /\ limit' = r.limit
                /\ pc' = "banner"
                /\ UNCHANGED <<stdio, exitCode>>
           [] r.kind = "help" ->
                \* the help text goes to stdout and the process exits 0
                /\ out' = out \o Append(buf, USAGE)
                /\ buf' = <<>>
                /\ exitCode' = 0
                /\ pc' = "exited"
                /\ UNCHANGED <<limit, err>>
           [] r.kind = "error" ->
                \* parser.error(): usage on stderr, exit status 2
                /\ err' = Append(err, USAGE)
                /\ exitCode' = UsageExitCode
                /\ pc' = "exited"
                /\ UNCHANGED <<limit, buf, out>>
    /\ UNCHANGED <<argv, lineBuffered, locals, main_primes>>

(***************************************************************************)
(* main, line 33: print("Starting prime calculation...")                   *)
(***************************************************************************)
WriteBanner ==
    /\ pc = "banner"
    /\ print_plain(BANNER)
    /\ pc' = "start"
    /\ UNCHANGED <<argv, lineBuffered, limit, locals, main_primes, err,
                   exitCode>>

(***************************************************************************)
(* main, line 34: print("__WORK_START__", flush=True)                      *)
(***************************************************************************)
WriteStart ==
    /\ pc = "start"
    /\ print_flush(WORK_START)
    /\ pc' = "call"
    /\ UNCHANGED <<argv, lineBuffered, limit, locals, main_primes, err,
                   exitCode>>

(***************************************************************************)
(* main, line 36 / find_primes, lines 14-15: the call; primes = [] and the *)
(* range iterator is created at 2.                                         *)
(***************************************************************************)
CallFindPrimes ==
    /\ pc = "call"
    /\ primes' = <<>>
    /\ rangeNext' = 2
    /\ pc' = "loop"
    /\ UNCHANGED <<argv, lineBuffered, limit, num, is_prime, main_primes,
                   stdio, exitCode>>

(***************************************************************************)
(* Variants of the outer loop.                                             *)
(***************************************************************************)
\* range(2, limit + 1)
OuterIteration_Inclusive ==
    /\ pc = "loop"
    /\ rangeNext <= limit
    /\ num' = rangeNext
    /\ rangeNext' = rangeNext + 1
    /\ is_prime' = TrialDivision(num')
    /\ primes' = IF is_prime' THEN Append(primes, num') ELSE primes
    /\ UNCHANGED <<pc, argv, lineBuffered, limit, main_primes, stdio,
                   exitCode>>

\* a hand-written while loop that advances only after an append
OuterIteration_StuckOnComposite ==
    /\ pc = "loop"
    /\ rangeNext < limit
    /\ num' = rangeNext
    /\ is_prime' = TrialDivision(num')
    /\ rangeNext' = IF is_prime' THEN rangeNext + 1 ELSE rangeNext
    /\ primes' = IF is_prime' THEN Append(primes, num') ELSE primes
    /\ UNCHANGED <<pc, argv, lineBuffered, limit, main_primes, stdio,
                   exitCode>>

\* a progress line printed for every prime found
OuterIteration_DebugPrint ==
    /\ pc = "loop"
    /\ rangeNext < limit
    /\ num' = rangeNext
    /\ rangeNext' = rangeNext + 1
    /\ is_prime' = TrialDivision(num')
    /\ primes' = IF is_prime' THEN Append(primes, num') ELSE primes
    /\ IF is_prime' THEN print_plain(IntToStr(num'))
                    ELSE UNCHANGED <<buf, out>>
    /\ UNCHANGED <<pc, argv, lineBuffered, limit, main_primes, err,
                   exitCode>>

(***************************************************************************)
(* find_primes, lines 15-22: one iteration of the outer loop.              *)
(***************************************************************************)
OuterIteration ==
    /\ pc = "loop"
    /\ rangeNext < limit
    /\ num' = rangeNext
    /\ rangeNext' = rangeNext + 1
    /\ is_prime' = TrialDivision(num')
    /\ primes' = LoopBody(primes, num')
    /\ UNCHANGED <<pc, argv, lineBuffered, limit, main_primes, stdio,
                   exitCode>>

(***************************************************************************)
(* find_primes, line 23 / main, line 36: the range is exhausted, the list  *)
(* is returned and bound to main's primes.                                 *)
(***************************************************************************)
ReturnPrimes ==
    /\ pc = "loop"
    /\ rangeNext >= limit
    /\ main_primes' = primes
    /\ pc' = "end"
    /\ UNCHANGED <<argv, lineBuffered, limit, locals, stdio, exitCode>>

\* variant: the start marker pasted at the end of the work
WriteEnd_WrongMarker ==
    /\ pc = "end"
    /\ print_flush(WORK_START)
    /\ pc' = "summary"
    /\ UNCHANGED <<argv, lineBuffered, limit, locals, main_primes, err,
                   exitCode>>

(***************************************************************************)
(* main, line 38: print("__WORK_END__", flush=True)                        *)
(***************************************************************************)
WriteEnd ==
    /\ pc = "end"
    /\ print_flush(WORK_END)
    /\ pc' = "summary"
    /\ UNCHANGED <<argv, lineBuffered, limit, locals, main_primes, err,
                   exitCode>>

\* variant: the two values of the summary exchanged
WriteSummary_Swapped ==
    /\ pc = "summary"
    /\ print_plain(Summary(limit, Len(main_primes)))
    /\ pc' = "finish"
    /\ UNCHANGED <<argv, lineBuffered, limit, locals, main_primes, err,
                   exitCode>>

(***************************************************************************)
(* main, line 39: print(f"Found {len(primes)} prime numbers up to ...")    *)
(***************************************************************************)
WriteSummary ==
    /\ pc = "summary"
    /\ print_plain(Summary(Len(main_primes), limit))
    /\ pc' = "finish"
    /\ UNCHANGED <<argv, lineBuffered, limit, locals, main_primes, err,
                   exitCode>>

(***************************************************************************)
(* line 43: main returns; the interpreter flushes stdout and exits with 0. *)
(***************************************************************************)
Exit ==
    /\ pc = "finish"
    /\ out' = out \o buf
    /\ buf' = <<>>
    /\ exitCode' = 0
    /\ pc' = "exited"
    /\ UNCHANGED <<argv, lineBuffered, limit, locals, main_primes, err>>

Next ==
    \/ ParseArgs
    \/ WriteBanner
    \/ WriteStart
    \/ CallFindPrimes
    \/ OuterIteration
    \/ ReturnPrimes
    \/ WriteEnd
    \/ WriteSummary
    \/ Exit

Spec == Init /\ [][Next]_vars

(***************************************************************************)
(* main, line 36 as one step: primes = find_primes(args.limit), from the   *)
(* call to the return.  The locals are left as the loop leaves them.       *)
(***************************************************************************)
RunFindPrimes ==
    /\ pc = "call"
    /\ primes' = find_primes(limit)
    /\ main_primes' = primes'
    /\ rangeNext' = IF limit > 2 THEN limit ELSE 2
    /\ num' = IF limit > 2 THEN limit - 1 ELSE num
    /\ is_prime' = IF limit > 2 THEN TrialDivision(limit - 1) ELSE is_prime
    /\ pc' = "end"
    /\ UNCHANGED <<argv, lineBuffered, limit, stdio, exitCode>>

NextAll ==
    \/ ParseArgs
    \/ WriteBanner
    \/ WriteStart
    \/ RunFindPrimes
    \/ WriteEnd
    \/ WriteSummary
    \/ Exit

\* every command line of Spec and the empty one (the default limit), the
\* search taken as one step
SpecAll == InitAll /\ [][NextAll]_vars

\* the interpreter keeps executing the program until the process has exited
FairSpec == Init /\ [][Next]_vars /\ WF_vars(Next)

(***************************************************************************)
(* Reference notions used by the properties (not taken from the code).     *)
(***************************************************************************)
\* n is prime: at least 2 and divisible by nothing strictly between 1 and n
IsPrimeDef(n) == n >= 2 /\ \A d \in 2..(n - 1) : n % d # 0

PrimesBelow(lim) == { n \in 2..(lim - 1) : IsPrimeDef(n) }

Elements(s) == { s[k] : k \in DOMAIN s }

StrictlyAscending(s) == \A k \in 1..(Len(s) - 1) : s[k] < s[k + 1]

Count(x, s) == Cardinality({ k \in DOMAIN s : s[k] = x })

\* everything written to stdout so far, flushed or not
Written == out \o buf

\* the limit a valid command line asks for
GivenLimit(args) ==
    IF Len(args) = 0 THEN 50000
    ELSE CHOOSE n \in ExplicitLimits : args[2] = IntToken(n)

ArgvValid == ArgvExplicit \cup { <<>> }

InFindPrimes == pc = "loop"

AfterReturn == pc \in {"end", "summary", "finish"} \/ (pc = "exited" /\ argv \in ArgvValid)

(***************************************************************************)
(* The search taken step by step ends in the state RunFindPrimes gives.    *)
(***************************************************************************)
StepwiseAgrees ==
    pc = "end" =>
       /\ primes = find_primes(limit)
       /\ main_primes = primes
       /\ rangeNext = (IF limit > 2 THEN limit ELSE 2)
       /\ num = (IF limit > 2 THEN limit - 1 ELSE 0)
       /\ limit > 2 => is_prime = TrialDivision(limit - 1)

(***************************************************************************)
(* C1: for every limit >= 2, once find_primes(limit) has returned, its     *)
(* result holds exactly the primes strictly below limit: no element has a  *)
(* divisor d with 2 <= d and d*d <= n, every prime p with 2 <= p < limit   *)
(* is an element, and the elements are strictly ascending (so without      *)
(* duplicates); limit = 10 gives <<2, 3, 5, 7>>.                           *)
(***************************************************************************)
C1_FindPrimesExact ==
    (AfterReturn /\ limit >= 2) =>
       /\ \A k \in DOMAIN main_primes :
             /\ main_primes[k] \in 2..(limit - 1)
             /\ \A d \in 2..main_primes[k] :
                   d * d <= main_primes[k] => main_primes[k] % d # 0
       /\ \A p \in 2..(limit - 1) :
             IsPrimeDef(p) => p \in Elements(main_primes)
       /\ StrictlyAscending(main_primes)
       /\ (limit = 10 => main_primes = <<2, 3, 5, 7>>)

C1_Witness ==
    /\ pc = "end"
    /\ limit = 26
    /\ main_primes = <<2, 3, 5, 7, 11, 13, 17, 19, 23>>

(***************************************************************************)
(* C2 as stated: every run of main, whatever its command line, ends with   *)
(* exactly one __WORK_START__ and exactly one __WORK_END__ on stdout, the  *)
(* start marker first.                                                     *)
(***************************************************************************)
MarkersOnceInOrder(s) ==
    /\ Count(WORK_START, s) = 1
    /\ Count(WORK_END, s) = 1
    /\ \A j, k \in DOMAIN s :
          (s[j] = WORK_START /\ s[k] = WORK_END) => j < k

C2_Original == pc = "exited" => MarkersOnceInOrder(out)

(***************************************************************************)
(* C2 amended: a run of main whose command line parses to an integer limit *)
(* ends with exactly one __WORK_START__ and exactly one __WORK_END__ on    *)
(* stdout, the start marker first; in every run, at every moment, each     *)
(* marker has been written at most once and __WORK_END__ only after        *)
(* __WORK_START__.                                                         *)
(***************************************************************************)
C2_MarkersWhenParsed ==
    /\ Count(WORK_START, Written) <= 1
    /\ Count(WORK_END, Written) <= 1
    /\ \A k \in DOMAIN Written :
          Written[k] = WORK_END =>
             \E j \in 1..(k - 1) : Written[j] = WORK_START
    /\ (pc = "exited" /\ argv \in ArgvValid) => MarkersOnceInOrder(out)

C2_Witness ==
    /\ pc = "exited"
    /\ argv = <<"--limit", <<"1", "0">> >>
    /\ MarkersOnceInOrder(out)

(***************************************************************************)
(* C3: with an invalid command line (a value that is not an integer, a     *)
(* flag without its value) the process goes from parsing straight to exit  *)
(* with a non-zero status: nothing is ever written to stdout (no banner,   *)
(* no marker) and find_primes is never called.                             *)
(***************************************************************************)
C3_InvalidInputNoWork ==
    argv \in ArgvInvalid =>
       /\ pc \in {"parse", "exited"}
       /\ Written = <<>>
       /\ rangeNext = 0 /\ num = 0 /\ primes = <<>> /\ main_primes = <<>>
       /\ pc = "exited" => (exitCode # 0 /\ exitCode # Running)

C3_Witness ==
    /\ pc = "exited"
    /\ argv = <<"--limit", <<"a", "b", "c">> >>
    /\ exitCode = 2
    /\ out = <<>>

(***************************************************************************)
(* C4: each marker has left the output buffer when the statement that      *)
(* wrote it is over.  When find_primes starts and while it runs, the       *)
(* banner and __WORK_START__ are visible to the reader and the buffer is   *)
(* empty; once __WORK_END__ has been written it is visible, before the     *)
(* summary is written; no marker is ever in the buffer between two steps.  *)
(***************************************************************************)
C4_MarkersFlushed ==
    /\ pc \in {"call", "loop", "end"} =>
          (buf = <<>> /\ out = <<BANNER, WORK_START>>)
    /\ pc = "summary" =>
          (buf = <<>> /\ out = <<BANNER, WORK_START, WORK_END>>)
    /\ \A k \in DOMAIN buf : buf[k] \notin {WORK_START, WORK_END}

C4_Witness ==
    /\ pc = "finish"
    /\ ~lineBuffered
    /\ Len(buf) = 1
    /\ out = <<BANNER, WORK_START, WORK_END>>

(***************************************************************************)
(* C5: for every limit <= 2 (zero and the negative ones included) the      *)
(* outer loop body is never entered (num is never bound, the range         *)
(* iterator never advances), find_primes returns the empty sequence and    *)
(* the process ends without an error.                                      *)
(***************************************************************************)
C5_DegenerateLimitEmpty ==
    (argv \in ArgvValid /\ pc \notin {"parse", "banner", "start", "call"}
       /\ limit <= 2) =>
       /\ primes = <<>>
       /\ num = 0
       /\ rangeNext = 2
       /\ main_primes = <<>>
       /\ pc = "exited" => exitCode = 0

C5_Witness ==
    /\ pc = "end"
    /\ limit < 0
    /\ main_primes = <<>>
    /\ rangeNext = 2

(***************************************************************************)
(* C6: for every command line that parses to an integer limit, stdout at   *)
(* exit is exactly the banner, __WORK_START__, __WORK_END__ and            *)
(* "Found <count> prime numbers up to <limit>", where <count> is the       *)
(* number of primes strictly below the limit and <limit> the value given   *)
(* (50000 without a flag).                                                 *)
(***************************************************************************)
C6_FourLines ==
    (pc = "exited" /\ argv \in ArgvValid) =>
       /\ buf = <<>>
       /\ limit = GivenLimit(argv)
       /\ out = << BANNER, WORK_START, WORK_END,
                   "Found " \o IntToStr(Cardinality(PrimesBelow(GivenLimit(argv))))
                      \o " prime numbers up to " \o IntToStr(GivenLimit(argv)) >>
       /\ argv = <<"-n", <<"1", "0">> >> =>
             out[4] = "Found 4 prime numbers up to 10"
       /\ argv = <<"-n", <<"-", "3">> >> =>
             out[4] = "Found 0 prime numbers up to -3"

C6_Witness ==
    /\ pc = "exited"
    /\ argv = <<"--limit", <<"3", "0">> >>
    /\ out = << BANNER, WORK_START, WORK_END,
                "Found 10 prime numbers up to 30" >>

(***************************************************************************)
(* C7: for every integer limit accepted by the parser the program          *)
(* terminates: the search, once started, returns; after it the summary is  *)
(* written and the process exits with status 0.                            *)
(***************************************************************************)
C7_Terminates ==
    /\ (pc = "loop") ~> (pc = "end")
    /\ (pc = "banner") ~>
          (/\ pc = "exited"
           /\ exitCode = 0
           /\ Len(out) = 4
           /\ out[4] = Summary(Len(main_primes), limit))

C7_Witness ==
    /\ pc = "exited"
    /\ exitCode = 0
    /\ limit = 0 - 2
    /\ Len(out) = 4

(***************************************************************************)
(* C8: a step taken while find_primes runs (from the call to the return)   *)
(* writes nothing to stdout or stderr and leaves the parsed limit, the     *)
(* command line and the exit status unchanged; main's own variable changes *)
(* only by receiving the returned list.                                    *)
(***************************************************************************)
SearchStepFrame ==
    pc \in {"call", "loop"} =>
       /\ out' = out /\ buf' = buf /\ err' = err
       /\ limit' = limit /\ argv' = argv /\ exitCode' = exitCode
       /\ lineBuffered' = lineBuffered
       /\ \/ main_primes' = main_primes
          \/ (pc' = "end" /\ main_primes' = primes)

C8_SearchHasNoSideEffects == [][SearchStepFrame]_vars

C8_Witness ==
    /\ pc = "loop"
    /\ Len(primes) >= 3
    /\ out = <<BANNER, WORK_START>>
    /\ buf = <<>>

(***************************************************************************)
(* C9: without a flag the limit is 50000, find_primes returns 5133 primes  *)
(* and the summary reads "Found 5133 prime numbers up to 50000".           *)
(***************************************************************************)
C9_DefaultCount ==
    argv = <<>> =>
       /\ pc \notin {"parse"} => limit = 50000
       /\ pc \in {"end", "summary", "finish", "exited"} =>
             Len(main_primes) = 5133
       /\ pc = "exited" =>
             (Len(out) = 4 /\ out[4] = "Found 5133 prime numbers up to 50000")

C9_Witness ==
    /\ pc = "exited"
    /\ argv = <<>>
    /\ Len(main_primes) = 5133
    /\ Len(out) = 4

(***************************************************************************)
(* C10: loop invariant of find_primes.  After every iteration of the outer *)
(* loop for candidate num, primes is the ascending sequence of the primes  *)
(* in [2, num], and is_prime tells whether no d in [2, floor(sqrt(num))]   *)
(* divides num; an iteration leaves primes unchanged or appends the        *)
(* candidate to its end, the latter exactly when is_prime holds.           *)
(***************************************************************************)
LoopInvariant ==
    (pc = "loop" /\ rangeNext > 2) =>
       /\ num = rangeNext - 1
       /\ Elements(primes) = PrimesBelow(num + 1)
       /\ StrictlyAscending(primes)
       /\ is_prime = (\A d \in 2..num : d * d <= num => num % d # 0)

GrowsByAppend ==
    (pc = "loop" /\ pc' = "loop") =>
       /\ is_prime' => primes' = Append(primes, num')
       /\ ~is_prime' => primes' = primes

C10_LoopInvariant == [][GrowsByAppend]_vars /\ []LoopInvariant

C10_Witness ==
    /\ pc = "loop"
    /\ num = 25
    /\ ~is_prime
    /\ primes = <<2, 3, 5, 7, 11, 13, 17, 19, 23>>

====
